---------------------------- MODULE Spec2Model ----------------------------
(***************************************************************************)
(* Model of the safetensors reader qwen_asr_safetensors.c: the restricted  *)
(* JSON header parser, safetensors_open / safetensors_close in the POSIX   *)
(* and in the Windows build, multi_safetensors_open / _close / _find.      *)
(*                                                                         *)
(* Bytes are one-character strings; a C buffer is a sequence of bytes,     *)
(* indexed from 1 (C index i is TLA+ index i+1).                           *)
(***************************************************************************)
EXTENDS Integers, Sequences, FiniteSets, TLC

(***************************************************************************)
(* Bytes                                                                   *)
(***************************************************************************)
NUL == "NUL"
QUOTE == "\""
BSLASH == "\\"

\* *p for a cursor p into buf; the byte after the last one of buf reads as
\* the terminator that safetensors_open stores at header_json[header_size].
At(buf, p) == IF p >= 1 /\ p <= Len(buf) THEN buf[p] ELSE NUL

IsSpace(c) == c \in {" ", "\n", "\r", "\t"}

IsDigit(c) == c \in {"0", "1", "2", "3", "4", "5", "6", "7", "8", "9"}

DigitVal(c) ==
  CASE c = "0" -> 0 [] c = "1" -> 1 [] c = "2" -> 2 [] c = "3" -> 3
    [] c = "4" -> 4 [] c = "5" -> 5 [] c = "6" -> 6 [] c = "7" -> 7
    [] c = "8" -> 8 [] c = "9" -> 9

\* The C string held in a char array: the bytes before the first NUL.
RECURSIVE CStr(_)
CStr(s) ==
  IF s = <<>> \/ Head(s) = NUL THEN <<>> ELSE <<Head(s)>> \o CStr(Tail(s))

(***************************************************************************)
(* Minimal JSON parser                                                     *)
(***************************************************************************)
\* Let(v, F) is F(v): it names the value of v inside F, standing for a C
\* local variable that is assigned once.
Let(v, F(_)) == F(v)

RECURSIVE skip_whitespace(_, _)
skip_whitespace(buf, p) ==
  IF IsSpace(At(buf, p)) THEN skip_whitespace(buf, p + 1) ELSE p

Unescape(c) ==
  CASE c = "n" -> "\n" [] c = "t" -> "\t" [] OTHER -> c

RECURSIVE StringLoop(_, _, _, _)
StringLoop(buf, p, out, max_len) ==
  LET c == At(buf, p) IN
  IF c # NUL /\ c # QUOTE /\ Len(out) < max_len - 1
  THEN IF c = BSLASH
       THEN StringLoop(buf, p + 2, Append(out, Unescape(At(buf, p + 1))), max_len)
       ELSE StringLoop(buf, p + 1, Append(out, c), max_len)
  ELSE [p |-> p, out |-> out]

\* rc = 0 on success, -1 on failure; p is the cursor left behind; out is the
\* C string stored in the output array.
parse_string(buf, p0, max_len) ==
  Let(skip_whitespace(buf, p0), LAMBDA p1 :
  IF At(buf, p1) # QUOTE
  THEN [rc |-> -1, p |-> p1, out |-> <<>>]
  ELSE Let(StringLoop(buf, p1 + 1, <<>>, max_len), LAMBDA r :
       IF At(buf, r.p) # QUOTE
       THEN [rc |-> -1, p |-> r.p, out |-> CStr(r.out)]
       ELSE [rc |-> 0, p |-> r.p + 1, out |-> CStr(r.out)]))

RECURSIVE DigitLoop(_, _, _)
DigitLoop(buf, p, val) ==
  IF IsDigit(At(buf, p))
  THEN DigitLoop(buf, p + 1, val * 10 + DigitVal(At(buf, p)))
  ELSE [p |-> p, val |-> val]

parse_int(buf, p0) ==
  Let(skip_whitespace(buf, p0), LAMBDA p1 :
  Let(At(buf, p1) = "-", LAMBDA neg :
  Let(DigitLoop(buf, IF neg THEN p1 + 1 ELSE p1, 0), LAMBDA r :
  [p |-> r.p, val |-> IF neg THEN -r.val ELSE r.val])))

S_F32 == <<"F", "3", "2">>
S_F16 == <<"F", "1", "6">>
S_BF16 == <<"B", "F", "1", "6">>
S_I32 == <<"I", "3", "2">>
S_I64 == <<"I", "6", "4">>
S_BOOL == <<"B", "O", "O", "L">>

parse_dtype(s) ==
  CASE s = S_F32 -> "DTYPE_F32"
    [] s = S_F16 -> "DTYPE_F16"
    [] s = S_BF16 -> "DTYPE_BF16"
    [] s = S_I32 -> "DTYPE_I32"
    [] s = S_I64 -> "DTYPE_I64"
    [] s = S_BOOL -> "DTYPE_BOOL"
    [] OTHER -> "DTYPE_UNKNOWN"


\* size_t arithmetic is modular.  The width is scaled from 64 to 16 bits so
\* that every value stays inside the checker's integers.
SizeMod == 2 ^ 16

ToSize(v) == v % SizeMod

KeyBufLen == 64
DtypeBufLen == 32
NameBufLen == 256
MaxDims == 8

K_dtype == <<"d", "t", "y", "p", "e">>
K_shape == <<"s", "h", "a", "p", "e">>
K_data_offsets == <<"d", "a", "t", "a", "_", "o", "f", "f", "s", "e", "t", "s">>
K_metadata == <<"_", "_", "m", "e", "t", "a", "d", "a", "t", "a", "_", "_">>

\* if (**p == ',') (*p)++;
SkipComma(buf, p) == IF At(buf, p) = "," THEN p + 1 ELSE p

\* The "shape" loop: at most MaxDims elements are stored.
RECURSIVE ShapeLoop(_, _, _)
ShapeLoop(buf, p, shape) ==
  IF At(buf, p) # NUL /\ At(buf, p) # "]" /\ Len(shape) < MaxDims
  THEN Let(skip_whitespace(buf, p), LAMBDA p1 :
       IF At(buf, p1) = "]"
       THEN [p |-> p1, shape |-> shape]
       ELSE Let(parse_int(buf, p1), LAMBDA v :
            ShapeLoop(buf, SkipComma(buf, skip_whitespace(buf, v.p)),
                      Append(shape, v.val))))
  ELSE [p |-> p, shape |-> shape]

\* Mutant: nesting is not tracked, so the skip stops at the first comma or
\* closing bracket that is outside a string literal.
RECURSIVE SkipValue_NoDepth(_, _, _, _)
SkipValue_NoDepth(buf, p, depth, in_string) ==
  LET c == At(buf, p) IN
  IF c = NUL THEN p
  ELSE IF ~in_string
  THEN IF c = QUOTE THEN SkipValue_NoDepth(buf, p + 1, depth, TRUE)
       ELSE IF c \in {"}", "]", ","} THEN p
       ELSE SkipValue_NoDepth(buf, p + 1, depth, FALSE)
  ELSE IF c = BSLASH /\ At(buf, p + 1) # NUL THEN SkipValue_NoDepth(buf, p + 2, depth, TRUE)
       ELSE IF c = QUOTE THEN SkipValue_NoDepth(buf, p + 1, depth, FALSE)
       ELSE SkipValue_NoDepth(buf, p + 1, depth, TRUE)

\* The "skip unknown value" loop; returns the cursor at which it stops.
RECURSIVE SkipValue(_, _, _, _)
SkipValue(buf, p, depth, in_string) ==
  LET c == At(buf, p) IN
  IF c = NUL THEN p
  ELSE IF ~in_string
  THEN IF c = QUOTE THEN SkipValue(buf, p + 1, depth, TRUE)
       ELSE IF c \in {"{", "["} THEN SkipValue(buf, p + 1, depth + 1, FALSE)
       ELSE IF c \in {"}", "]"}
            THEN IF depth = 0 THEN p ELSE SkipValue(buf, p + 1, depth - 1, FALSE)
       ELSE IF c = "," /\ depth = 0 THEN p
       ELSE SkipValue(buf, p + 1, depth, FALSE)
  ELSE IF c = BSLASH /\ At(buf, p + 1) # NUL THEN SkipValue(buf, p + 2, depth, TRUE)
       ELSE IF c = QUOTE THEN SkipValue(buf, p + 1, depth, FALSE)
       ELSE SkipValue(buf, p + 1, depth, TRUE)

\* The cursor after an optional closing bracket.
SkipClose(buf, p) == IF At(buf, p) = "]" THEN p + 1 ELSE p

\* One "key": value pair of a tensor entry, the cursor standing at the value.
\* rc = -1 aborts the entry.
EntryValue(buf, key, p, t) ==
  IF key = K_dtype
  THEN Let(parse_string(buf, p, DtypeBufLen), LAMBDA d :
       IF d.rc # 0 THEN [rc |-> -1, p |-> d.p, t |-> t]
       ELSE [rc |-> 0, p |-> d.p, t |-> [t EXCEPT !.dtype = parse_dtype(d.out)]])
  ELSE IF key = K_shape
  THEN IF At(buf, p) # "[" THEN [rc |-> -1, p |-> p, t |-> t]
       ELSE Let(ShapeLoop(buf, p + 1, <<>>), LAMBDA s :
            [rc |-> 0,
             p |-> SkipClose(buf, s.p),
             t |-> [t EXCEPT !.ndim = Len(s.shape), !.shape = s.shape]])
  ELSE IF key = K_data_offsets
  THEN IF At(buf, p) # "[" THEN [rc |-> -1, p |-> p, t |-> t]
       ELSE Let(parse_int(buf, skip_whitespace(buf, p + 1)), LAMBDA a :
            Let(parse_int(buf, skip_whitespace(buf,
                  SkipComma(buf, skip_whitespace(buf, a.p)))), LAMBDA b :
            Let(ToSize(a.val), LAMBDA start :
            Let(ToSize(b.val), LAMBDA end :
            [rc |-> 0,
             p |-> SkipClose(buf, skip_whitespace(buf, b.p)),
             t |-> [t EXCEPT !.data_offset = start,
                             !.data_size = ToSize(end - start)]]))))
  ELSE [rc |-> 0, p |-> SkipValue(buf, p, 0, FALSE), t |-> t]

\* The key loop of parse_tensor_entry.
RECURSIVE EntryLoop(_, _, _)
EntryLoop(buf, p, t) ==
  IF At(buf, p) # NUL /\ At(buf, p) # "}"
  THEN Let(skip_whitespace(buf, p), LAMBDA p1 :
       IF At(buf, p1) = "}" THEN [rc |-> 0, p |-> p1, t |-> t]
       ELSE Let(parse_string(buf, p1, KeyBufLen), LAMBDA k :
            IF k.rc # 0 THEN [rc |-> -1, p |-> k.p, t |-> t]
            ELSE Let(skip_whitespace(buf, k.p), LAMBDA p2 :
                 IF At(buf, p2) # ":" THEN [rc |-> -1, p |-> p2, t |-> t]
                 ELSE Let(EntryValue(buf, k.out, skip_whitespace(buf, p2 + 1), t),
                          LAMBDA v :
                      IF v.rc # 0 THEN v
                      ELSE EntryLoop(buf, SkipComma(buf, skip_whitespace(buf, v.p)),
                                     v.t)))))
  ELSE [rc |-> 0, p |-> p, t |-> t]

\* A descriptor slot of the calloc'ed record after its name is copied and
\* parse_tensor_entry has reset dtype, ndim, data_offset and data_size.
NewTensor(name) ==
  [name |-> name, dtype |-> "DTYPE_UNKNOWN", ndim |-> 0, shape |-> <<>>,
   data_offset |-> 0, data_size |-> 0]

\* t arrives with its name set; the other fields are reset on entry.
parse_tensor_entry(buf, p0, name) ==
  Let(skip_whitespace(buf, p0), LAMBDA p1 :
  IF At(buf, p1) # "{" THEN [rc |-> -1, p |-> p1, t |-> NewTensor(name)]
  ELSE Let(EntryLoop(buf, p1 + 1, NewTensor(name)), LAMBDA r :
       IF r.rc # 0 THEN r
       ELSE [rc |-> 0, p |-> IF At(buf, r.p) = "}" THEN r.p + 1 ELSE r.p, t |-> r.t]))

\* Capacity of the descriptor table of one shard (declared in
\* qwen_asr_safetensors.h; scaled down here).
SAFETENSORS_MAX_TENSORS == 3

\* The bytes the "__metadata__" skip loop only steps over: p is advanced to
\* the next brace or to the terminating NUL.
NextBrace(buf, p) ==
  IF p > Len(buf) THEN p
  ELSE CHOOSE q \in p..(Len(buf) + 1) :
         /\ At(buf, q) \in {"{", "}", NUL}
         /\ \A r \in p..(q - 1) : At(buf, r) \notin {"{", "}", NUL}

\* The "__metadata__" skip loop of parse_header; returns the cursor at
\* which it stops.
RECURSIVE MetadataSkip(_, _, _)
MetadataSkip(buf, p, depth) ==
  Let(NextBrace(buf, p), LAMBDA q :
  IF At(buf, q) = NUL THEN q
  ELSE IF At(buf, q) = "{" THEN MetadataSkip(buf, q + 1, depth + 1)
  ELSE IF depth - 1 = 0 THEN q + 1
  ELSE MetadataSkip(buf, q + 1, depth - 1))

\* strncpy(t->name, tensor_name, sizeof(t->name) - 1) and the terminator.
CopyName(name) ==
  IF Len(name) > NameBufLen - 1 THEN SubSeq(name, 1, NameBufLen - 1) ELSE name

\* The entry loop of parse_header.
RECURSIVE HeaderLoop(_, _, _)
HeaderLoop(buf, p, tensors) ==
  IF At(buf, p) # NUL /\ At(buf, p) # "}" /\ Len(tensors) < SAFETENSORS_MAX_TENSORS
  THEN Let(skip_whitespace(buf, p), LAMBDA p1 :
       IF At(buf, p1) = "}" THEN [rc |-> 0, p |-> p1, tensors |-> tensors]
       ELSE Let(parse_string(buf, p1, NameBufLen), LAMBDA n :
            IF n.rc # 0 THEN [rc |-> -1, p |-> n.p, tensors |-> tensors]
            ELSE Let(skip_whitespace(buf, n.p), LAMBDA p2 :
                 IF At(buf, p2) # ":" THEN [rc |-> -1, p |-> p2, tensors |-> tensors]
                 ELSE IF n.out = K_metadata
                 THEN HeaderLoop(buf,
                        SkipComma(buf, skip_whitespace(buf, MetadataSkip(buf, p2 + 1, 0))),
                        tensors)
                 ELSE Let(parse_tensor_entry(buf, p2 + 1, CopyName(n.out)), LAMBDA e :
                      IF e.rc # 0 THEN [rc |-> -1, p |-> e.p, tensors |-> tensors]
                      ELSE HeaderLoop(buf, SkipComma(buf, skip_whitespace(buf, e.p)),
                                      Append(tensors, e.t))))))
  ELSE [rc |-> 0, p |-> p, tensors |-> tensors]

\* Mutant: entries left over when the table is full are an error.
parse_header_FullIsError(buf) ==
  Let(skip_whitespace(buf, 1), LAMBDA p1 :
  IF At(buf, p1) # "{" THEN [rc |-> -1, p |-> p1, tensors |-> <<>>]
  ELSE Let(HeaderLoop(buf, p1 + 1, <<>>), LAMBDA r :
       IF r.rc = 0 /\ At(buf, r.p) \notin {"}", NUL}
       THEN [r EXCEPT !.rc = -1]
       ELSE r))

\* buf is header_json: the header bytes followed by the terminator.
parse_header(buf) ==
  Let(skip_whitespace(buf, 1), LAMBDA p1 :
  IF At(buf, p1) # "{" THEN [rc |-> -1, p |-> p1, tensors |-> <<>>]
  ELSE HeaderLoop(buf, p1 + 1, <<>>))

(***************************************************************************)
(* Header texts used as inputs                                             *)
(***************************************************************************)
Q(s) == <<QUOTE>> \o s \o <<QUOTE>>

DigitChar(d) == <<"0", "1", "2", "3", "4", "5", "6", "7", "8", "9">>[d + 1]

RECURSIVE NatText(_)
NatText(n) == IF n < 10 THEN <<DigitChar(n)>> ELSE NatText(n \div 10) \o <<DigitChar(n % 10)>>

IntText(n) == IF n < 0 THEN <<"-">> \o NatText(-n) ELSE NatText(n)

RECURSIVE Join(_, _)
Join(parts, sep) ==
  IF parts = <<>> THEN <<>>
  ELSE IF Len(parts) = 1 THEN parts[1]
  ELSE parts[1] \o sep \o Join(Tail(parts), sep)

IntsText(ns) == Join([i \in 1..Len(ns) |-> IntText(ns[i])], <<",">>)

F_dtype(d) == Q(K_dtype) \o <<":">> \o Q(d)
F_shape(dims) == Q(K_shape) \o <<":", "[">> \o IntsText(dims) \o <<"]">>
F_offsets(a, b) == Q(K_data_offsets) \o <<":", "[">> \o IntsText(<<a, b>>) \o <<"]">>

EntryText(name, fields) == Q(name) \o <<":", "{">> \o Join(fields, <<",">>) \o <<"}">>

HeaderText(entries) == <<"{">> \o Join(entries, <<",">>) \o <<"}">>

\* A plain entry: dtype, shape, data_offsets in the usual order.
TensorText(name, d, dims, a, b) ==
  EntryText(name, <<F_dtype(d), F_shape(dims), F_offsets(a, b)>>)

\* The descriptor such an entry denotes.
Descriptor(name, dt, dims, a, b) ==
  [name |-> name, dtype |-> dt, ndim |-> Len(dims), shape |-> dims,
   data_offset |-> a, data_size |-> b - a]

(***************************************************************************)
(* C library string functions over file names                              *)
(***************************************************************************)
\* The bytes that occur in file names, in ascending byte value.
ByteOrder ==
  <<"-", ".", "0", "1", "2", "3", "4", "5", "6", "7", "8", "9", "_",
    "a", "b", "c", "d", "e", "f", "g", "h", "i", "j", "k", "l", "m",
    "n", "o", "p", "q", "r", "s", "t", "u", "v", "w", "x", "y", "z">>

Code(c) == CHOOSE i \in 1..Len(ByteOrder) : ByteOrder[i] = c

\* Sign of strcmp(a, b).
RECURSIVE strcmp(_, _)
strcmp(a, b) ==
  IF a = <<>> /\ b = <<>> THEN 0
  ELSE IF a = <<>> THEN -1
  ELSE IF b = <<>> THEN 1
  ELSE IF Head(a) = Head(b) THEN strcmp(Tail(a), Tail(b))
  ELSE IF Code(Head(a)) < Code(Head(b)) THEN -1 ELSE 1

\* strncmp(a, b, n) == 0 for a literal b of n bytes.
HasPrefix(a, b) == Len(a) >= Len(b) /\ SubSeq(a, 1, Len(b)) = b

\* strstr(a, b) != NULL
strstr(a, b) ==
  \E i \in 1..(Len(a) - Len(b) + 1) : SubSeq(a, i, i + Len(b) - 1) = b

S_model_dash == <<"m", "o", "d", "e", "l", "-">>
S_dot_safetensors == <<".", "s", "a", "f", "e", "t", "e", "n", "s", "o", "r", "s">>
S_model_safetensors == <<"m", "o", "d", "e", "l">> \o S_dot_safetensors

\* Mutant: the extension has to end the name.
IsShardName_Suffix(name) ==
  /\ HasPrefix(name, S_model_dash)
  /\ Len(name) >= Len(S_dot_safetensors)
  /\ SubSeq(name, Len(name) - Len(S_dot_safetensors) + 1, Len(name)) = S_dot_safetensors

\* The filter of the directory scan.
IsShardName(name) == HasPrefix(name, S_model_dash) /\ strstr(name, S_dot_safetensors)

\* qsort(shard_names, n, 256, strcmp): insertion of each name at its place.
RECURSIVE InsertSorted(_, _)
InsertSorted(name, sorted) ==
  IF sorted = <<>> THEN <<name>>
  ELSE IF strcmp(name, Head(sorted)) <= 0 THEN <<name>> \o sorted
  ELSE <<Head(sorted)>> \o InsertSorted(name, Tail(sorted))

RECURSIVE qsort(_)
qsort(names) ==
  IF names = <<>> THEN <<>> ELSE InsertSorted(Head(names), qsort(Tail(names)))

(***************************************************************************)
(* Files, resources and single file operations                             *)
(***************************************************************************)
\* Pointers are records with a non-zero id; the null pointer is the record
\* whose id is 0.
NULL == [id |-> 0]

\* A file is [size, hlen, body]: its length in bytes, the 64-bit number held
\* by bytes [0,8) and the bytes from offset 8 on (both empty when size < 8).
\* NoFile stands for a path at which open() finds nothing.
NoFile == [size |-> -1, hlen |-> 0, body |-> <<>>]

\* The build: "posix", or "win32" where _WIN32 or _WIN64 is defined.  It
\* selects between the two definitions of safetensors_open and
\* safetensors_close.
VARIABLE build

Builds == {"posix", "win32"}

\* What the operating system and the allocator answer during one call of
\* safetensors_open: the first call that fails, and whether strdup succeeds.
\* strdup is reached only when nothing before it fails.
\*   POSIX:   open, fstat, mmap, calloc, malloc
\*   Windows: calloc of the win_mmap_t ("wm"), CreateFileA ("open"),
\*            GetFileSizeEx ("fstat"), CreateFileMappingA ("filemap"),
\*            MapViewOfFile ("mmap"), calloc, malloc
Env(b) ==
  {e \in [fail : {"none", "open", "fstat", "mmap", "calloc", "malloc"}
                   \cup (IF b = "win32" THEN {"wm", "filemap"} ELSE {}),
          strdup_ok : BOOLEAN] : e.fail \in {"none", "malloc"} \/ e.strdup_ok}

Acq(k) == [op |-> "acq", kind |-> k]
Rel(k) == [op |-> "rel", kind |-> k]

\* Resources are pairs <<owner id, kind>>.  Releasing one that is not live
\* (a double free, a double munmap) sets bad.
RECURSIVE ApplyEvents(_, _, _, _)
ApplyEvents(lv, bd, id, ev) ==
  IF ev = <<>> THEN [live |-> lv, bad |-> bd]
  ELSE Let(<<id, Head(ev).kind>>, LAMBDA r :
       IF Head(ev).op = "acq"
       THEN ApplyEvents(lv \cup {r}, bd \/ r \in lv, id, Tail(ev))
       ELSE ApplyEvents(lv \ {r}, bd \/ r \notin lv, id, Tail(ev)))

\* The calls win_mmap_close(wm) makes: UnmapViewOfFile, CloseHandle of the
\* mapping and of the file, free(wm).  It is only called with a wm that
\* win_mmap_open returned, whose data, hMapping and hFile are all set.
win_mmap_close(wm) ==
  IF wm = NULL THEN <<>>
  ELSE <<Rel("view"), Rel("hMapping"), Rel("hFile"), Rel("wm")>>

\* The release of the mapping by safetensors_close: munmap(data, file_size)
\* if data is set, or win_mmap_close(sfw->wm) if wm is set.
CloseMapping(sf) ==
  IF build = "win32"
  THEN (IF sf.wm # NULL THEN win_mmap_close(sf.wm) ELSE <<>>)
  ELSE (IF sf.data # NULL THEN <<Rel("map")>> ELSE <<>>)

\* Mutant: the header buffer is not freed.
safetensors_close_NoHeaderFree(sf) ==
  IF sf = NULL THEN <<>>
  ELSE CloseMapping(sf)
       \o (IF sf.path # NULL THEN <<Rel("path")>> ELSE <<>>)
       \o <<Rel("sf")>>

\* The calls safetensors_close(sf) makes: the release of the mapping,
\* free(path), free(header_json), free of the record; free(NULL) does nothing.
safetensors_close(sf) ==
  IF sf = NULL THEN <<>>
  ELSE CloseMapping(sf)
       \o (IF sf.path # NULL THEN <<Rel("path")>> ELSE <<>>)
       \o (IF sf.header_json # NULL THEN <<Rel("hdr")>> ELSE <<>>)
       \o <<Rel("sf")>>

\* Mutant: the length prefix is forgotten in the comparison.
HeaderTooLarge_NoPrefix(header_size, file_size) == header_size > file_size

\* if (header_size > file_size - 8), taken when file_size >= 8.
HeaderTooLarge(header_size, file_size) == header_size > file_size - 8

\* malloc(header_size + 1), memcpy from data + 8 and the terminator.  A byte
\* taken from beyond the mapping has no defined value and reads as "?".
HeaderCopy(body, header_size) ==
  [i \in 1..header_size |-> IF i <= Len(body) THEN body[i] ELSE "?"] \o <<NUL>>

(***************************************************************************)
(* The model directory                                                     *)
(***************************************************************************)
N_single == S_model_safetensors
N_1 == S_model_dash \o <<"1", "-", "o", "f", "-", "2">> \o S_dot_safetensors
N_2 == S_model_dash \o <<"2", "-", "o", "f", "-", "2">> \o S_dot_safetensors
N_bak == S_model_dash \o <<"x">> \o S_dot_safetensors \o <<".", "b", "a", "k">>
N_bin == S_model_dash \o <<"1", ".", "b", "i", "n">>
N_pre == <<"x">> \o S_model_dash \o <<"1">> \o S_dot_safetensors

Names == {N_single, N_1, N_2, N_bak, N_bin, N_pre}

DataBytes(n) == [i \in 1..n |-> "d"]

\* A well-formed file: the header text and a data block of dataLen bytes.
MkFile(header, dataLen) ==
  [size |-> 8 + Len(header) + dataLen, hlen |-> Len(header),
   body |-> header \o DataBytes(dataLen)]

T_a == <<"a">>
T_b == <<"b">>
T_c == <<"c">>
TensorNames == {T_a, T_b, T_c}

F_A == MkFile(HeaderText(<<TensorText(T_a, S_F32, <<1>>, 0, 4),
                           TensorText(T_b, S_BF16, <<2>>, 4, 8)>>), 8)
F_B == MkFile(HeaderText(<<TensorText(T_b, S_F32, <<1>>, 0, 4),
                           TensorText(T_c, S_BF16, <<1, 2>>, 4, 8),
                           TensorText(T_b, S_I32, <<>>, 8, 12)>>), 12)
\* shorter than the length prefix
F_short == [size |-> 5, hlen |-> 0, body |-> <<>>]
\* declares a header one byte longer than what follows the prefix
F_huge == [size |-> 10, hlen |-> 3, body |-> <<"{", "}">>]
\* the header fills the file exactly; no data block
F_exact == MkFile(<<"{", "}">>, 0)
\* data_offsets [0, 100] over a data block of 50 bytes
F_oob == MkFile(HeaderText(<<TensorText(T_a, S_F32, <<25>>, 0, 100)>>), 50)
\* the opening brace of the header is missing
F_bad == MkFile(Tail(HeaderText(<<TensorText(T_a, S_F32, <<1>>, 0, 4)>>)), 4)

\* The files, by the short names that stand for them in the state; "none"
\* is what a path without a file resolves to.
Files ==
  [A |-> F_A, B |-> F_B, short |-> F_short, huge |-> F_huge, exact |-> F_exact,
   oob |-> F_oob, bad |-> F_bad, none |-> NoFile]

AllFiles == DOMAIN Files \ {"none"}

\* parse_header over the header_json that safetensors_open builds from each
\* file, computed once per file.
ParsedHeader ==
  [k \in DOMAIN Files |-> parse_header(HeaderCopy(Files[k].body, Files[k].hlen))]

\* The contents tried under each name.
Contents(name) ==
  IF name = N_single THEN AllFiles
  ELSE IF IsShardName(name) THEN {"A", "B", "bad"}
  ELSE {"A"}

MaxDirEntries == 3

Directories ==
  UNION {{f \in [D -> AllFiles] : \A n \in D : f[n] \in Contents(n)} :
           D \in {D \in SUBSET Names : Cardinality(D) <= MaxDirEntries}}

\* safetensors_open(path) for the file found at path, under env; id stands
\* for the address calloc returns for the record.  The record keeps the
\* address and length of header_json: its content is read by parse_header
\* alone.
\*   fkey   the file at path, a key of Files
\*   sf     the shard returned, or NULL
\*   ev     the acquisitions and releases made, in order
\*   copied the byte range [lo, hi) of the file that memcpy copied into
\*          header_json, <<>> if no header byte was copied
\*   parsed whether parse_header ran
NoShard == [sf |-> NULL, ev |-> <<>>, copied |-> <<>>, parsed |-> FALSE]

\* The record after calloc and the assignments of path, data, file_size and
\* header_size.  wm is the field of the enclosing safetensors_file_win_t in
\* the Windows build; the POSIX record has no such field and carries NULL.
NewShard(id, name, file, env, wm) ==
  [id |-> id,
   wm |-> wm,
   path |-> IF env.strdup_ok THEN [id |-> id, str |-> name] ELSE NULL,
   data |-> [id |-> id, len |-> file.size],
   file_size |-> file.size,
   header_size |-> file.hlen,
   header_json |-> NULL,
   num_tensors |-> 0,
   tensors |-> <<>>]

\* The end of safetensors_open, common to both builds: header_json is
\* allocated and filled, parse_header runs; sf1 is the record with
\* header_json set, ev3 the events up to the malloc.
ParseInto(sf1, ev3, fkey) ==
  Let(ParsedHeader[fkey], LAMBDA h :
  Let(<<8, 8 + sf1.header_size>>, LAMBDA cp :
  IF h.rc # 0
  THEN [sf |-> NULL, ev |-> ev3 \o safetensors_close(sf1), copied |-> cp, parsed |-> TRUE]
  ELSE [sf |-> [sf1 EXCEPT !.num_tensors = Len(h.tensors), !.tensors = h.tensors],
        ev |-> ev3, copied |-> cp, parsed |-> TRUE]))

\* The POSIX definition.
safetensors_open_posix(id, name, fkey, env) ==
  Let(Files[fkey], LAMBDA file :
  IF file.size < 0 \/ env.fail = "open" THEN NoShard
  ELSE IF env.fail = "fstat" THEN [NoShard EXCEPT !.ev = <<Acq("fd"), Rel("fd")>>]
  ELSE IF file.size < 8 THEN [NoShard EXCEPT !.ev = <<Acq("fd"), Rel("fd")>>]
  ELSE IF env.fail = "mmap" THEN [NoShard EXCEPT !.ev = <<Acq("fd"), Rel("fd")>>]
  ELSE
  Let(<<Acq("fd"), Acq("map"), Rel("fd")>>, LAMBDA ev1 :
  IF HeaderTooLarge(file.hlen, file.size) THEN [NoShard EXCEPT !.ev = ev1 \o <<Rel("map")>>]
  ELSE IF env.fail = "calloc" THEN [NoShard EXCEPT !.ev = ev1 \o <<Rel("map")>>]
  ELSE
  Let(NewShard(id, name, file, env, NULL), LAMBDA sf0 :
  Let(ev1 \o <<Acq("sf")>> \o (IF env.strdup_ok THEN <<Acq("path")>> ELSE <<>>),
      LAMBDA ev2 :
  IF env.fail = "malloc" THEN [NoShard EXCEPT !.ev = ev2 \o safetensors_close(sf0)]
  ELSE ParseInto([sf0 EXCEPT !.header_json = [id |-> id, len |-> file.hlen + 1]],
                 ev2 \o <<Acq("hdr")>>, fkey)))))

\* win_mmap_open(path): the events it makes and whether it returns a wm.
win_mmap_open(file, env) ==
  IF env.fail = "wm" THEN [ok |-> FALSE, ev |-> <<>>]
  ELSE IF file.size < 0 \/ env.fail = "open"
  THEN [ok |-> FALSE, ev |-> <<Acq("wm"), Rel("wm")>>]
  ELSE IF env.fail \in {"fstat", "filemap"}
  THEN [ok |-> FALSE, ev |-> <<Acq("wm"), Acq("hFile"), Rel("hFile"), Rel("wm")>>]
  ELSE IF env.fail = "mmap"
  THEN [ok |-> FALSE,
        ev |-> <<Acq("wm"), Acq("hFile"), Acq("hMapping"),
                 Rel("hMapping"), Rel("hFile"), Rel("wm")>>]
  ELSE [ok |-> TRUE, ev |-> <<Acq("wm"), Acq("hFile"), Acq("hMapping"), Acq("view")>>]

\* The Windows definition; the record is a safetensors_file_win_t, the shard
\* fields followed by wm.
safetensors_open_win32(id, name, fkey, env) ==
  Let(Files[fkey], LAMBDA file :
  Let(win_mmap_open(file, env), LAMBDA w :
  Let([id |-> id], LAMBDA wm :
  IF ~w.ok THEN [NoShard EXCEPT !.ev = w.ev]
  ELSE IF file.size < 8 THEN [NoShard EXCEPT !.ev = w.ev \o win_mmap_close(wm)]
  ELSE IF HeaderTooLarge(file.hlen, file.size)
  THEN [NoShard EXCEPT !.ev = w.ev \o win_mmap_close(wm)]
  ELSE IF env.fail = "calloc" THEN [NoShard EXCEPT !.ev = w.ev \o win_mmap_close(wm)]
  ELSE
  Let(NewShard(id, name, file, env, wm), LAMBDA sf0 :
  Let(w.ev \o <<Acq("sf")>> \o (IF env.strdup_ok THEN <<Acq("path")>> ELSE <<>>),
      LAMBDA ev2 :
  IF env.fail = "malloc"
  THEN [NoShard EXCEPT !.ev = ev2 \o (IF sf0.path # NULL THEN <<Rel("path")>> ELSE <<>>)
                                  \o win_mmap_close(wm) \o <<Rel("sf")>>]
  ELSE ParseInto([sf0 EXCEPT !.header_json = [id |-> id, len |-> file.hlen + 1]],
                 ev2 \o <<Acq("hdr")>>, fkey))))))

safetensors_open(id, name, fkey, env) ==
  IF build = "win32" THEN safetensors_open_win32(id, name, fkey, env)
  ELSE safetensors_open_posix(id, name, fkey, env)

(***************************************************************************)
(* Multi-shard operations                                                  *)
(***************************************************************************)
\* Capacity of the shard table of a set (declared in qwen_asr_safetensors.h;
\* scaled down here).
SAFETENSORS_MAX_SHARDS == 2

ShardNameLen == 256

\* snprintf(shard_names[n], sizeof(shard_names[n]), "%s", d_name)
CopyShardName(name) ==
  IF Len(name) > ShardNameLen - 1 THEN SubSeq(name, 1, ShardNameLen - 1) ELSE name

\* The readdir loop: order is the sequence of names readdir returns, k the
\* next one to be returned, names the shard_names collected so far.
RECURSIVE ScanLoop(_, _, _)
ScanLoop(order, k, names) ==
  IF k <= Len(order) /\ Len(names) < SAFETENSORS_MAX_SHARDS
  THEN ScanLoop(order, k + 1,
                IF IsShardName(order[k]) THEN Append(names, CopyShardName(order[k]))
                ELSE names)
  ELSE names

\* The loop of multi_safetensors_close(m) from index s on, acting on the
\* resources lv: safetensors_close for each shard below num_shards.
RECURSIVE CloseShards(_, _, _, _)
CloseShards(m, s, lv, bd) ==
  IF s <= m.num_shards
  THEN Let(m.shards[s], LAMBDA sf :
       Let(IF sf = NULL THEN [live |-> lv, bad |-> bd]
           ELSE ApplyEvents(lv, bd, sf.id, safetensors_close(sf)), LAMBDA r :
       CloseShards(m, s + 1, r.live, r.bad)))
  ELSE [live |-> lv, bad |-> bd]

\* Mutant: the set record is not freed.
multi_safetensors_close_NoFree(m, lv, bd) ==
  IF m = NULL THEN [live |-> lv, bad |-> bd]
  ELSE CloseShards(m, 1, lv, bd)

\* multi_safetensors_close(m): the loop, then free(m).
multi_safetensors_close(m, lv, bd) ==
  IF m = NULL THEN [live |-> lv, bad |-> bd]
  ELSE Let(CloseShards(m, 1, lv, bd), LAMBDA r :
       ApplyEvents(r.live, r.bad, m.id, <<Rel("ms")>>))

\* The scan of multi_safetensors_find from shard s, tensor i on; the result
\* is [s, i], the indices of the descriptor returned, or NULL.
RECURSIVE FindFrom(_, _, _, _)
FindFrom(m, name, s, i) ==
  IF s > m.num_shards THEN NULL
  ELSE IF i > m.shards[s].num_tensors THEN FindFrom(m, name, s + 1, 1)
  ELSE IF strcmp(m.shards[s].tensors[i].name, name) = 0 THEN [s |-> s, i |-> i]
  ELSE FindFrom(m, name, s, i + 1)

\* Mutant: the scan runs from the last shard down to the first.
RECURSIVE FindFromLast(_, _, _, _)
FindFromLast(m, name, s, i) ==
  IF s < 1 THEN NULL
  ELSE IF i > m.shards[s].num_tensors THEN FindFromLast(m, name, s - 1, 1)
  ELSE IF strcmp(m.shards[s].tensors[i].name, name) = 0 THEN [s |-> s, i |-> i]
  ELSE FindFromLast(m, name, s, i + 1)

multi_safetensors_find_Reversed(m, name) == FindFromLast(m, name, m.num_shards, 1)

multi_safetensors_find(m, name) == FindFrom(m, name, 1, 1)

(***************************************************************************)
(* State                                                                   *)
(***************************************************************************)
VARIABLES
  fs,           \* the model directory: file name -> name of a file of Files
  live,         \* the resources held: <<owner id, kind>>
  bad,          \* a resource that was not live has been released
  single,       \* the shard the caller got from safetensors_open, or NULL
  set,          \* the set the caller got from multi_safetensors_open, or NULL
  pc,           \* position inside multi_safetensors_open: "idle" outside it
  ms,           \* multi_safetensors_open: the record under construction
  shard_names,  \* multi_safetensors_open: the sorted names
  shard_i,      \* multi_safetensors_open: the loop index i, from 1
  opened,       \* the safetensors_open calls of the discovery: [name, ok]
  last,         \* the last call that returned: [op, ret, site]
  info,         \* the last safetensors_open made by the caller
  found,        \* the result of the last multi_safetensors_find
  pin,          \* parser runs: the header text under test
  pout          \* parser runs: the outcome of parsing it

pvars == <<pin, pout>>

svars ==
  <<build, fs, live, bad, single, set, pc, ms, shard_names, shard_i, opened, last,
    info, found>>

vars == <<svars, pvars>>

\* Number of addresses the allocator hands out.
MaxObjs == 3

FreeIds(lv) == {k \in 1..MaxObjs : \A r \in lv : r[1] # k}

MinOf(S) == CHOOSE k \in S : \A m \in S : k <= m

FileAt(name) == IF name \in DOMAIN fs THEN fs[name] ELSE "none"

ListingOrders(D) ==
  {o \in [1..Cardinality(D) -> D] : \A a, b \in 1..Cardinality(D) : a # b => o[a] # o[b]}

NoInfo == [name |-> <<>>, copied |-> <<>>, parsed |-> FALSE]

NoCall == [op |-> "none", ret |-> "void", site |-> "none"]

\* The state before any call, in build b over the directory dir.
Start(b, dir) ==
  /\ build = b
  /\ fs = dir
  /\ live = {}
  /\ bad = FALSE
  /\ single = NULL
  /\ set = NULL
  /\ pc = "idle"
  /\ ms = NULL
  /\ shard_names = <<>>
  /\ shard_i = 0
  /\ opened = <<>>
  /\ last = NoCall
  /\ info = NoInfo
  /\ found = NULL

Init ==
  /\ \E b \in Builds, dir \in Directories : Start(b, dir)
  /\ pin = NULL
  /\ pout = NULL

(***************************************************************************)
(* Actions                                                                 *)
(*                                                                         *)
(* pc = "idle": the caller is between calls; "scan", "loop": inside        *)
(* multi_safetensors_open; "ret": a call has returned and last, info,      *)
(* found, opened, shard_names describe it until Return.                    *)
(***************************************************************************)
Returned(op, ret, site) == [op |-> op, ret |-> ret, site |-> site]

EmptyShards == [s \in 1..SAFETENSORS_MAX_SHARDS |-> NULL]

\* Mutant: num_shards is left at 0.
SingleFileSet_NoCount(m, sf) == [m EXCEPT !.shards[1] = sf]

\* ms->shards[0] = sf; ms->num_shards = 1;
SingleFileSet(m, sf) == [m EXCEPT !.shards[1] = sf, !.num_shards = 1]

\* A path at which there is no file.
N_missing == <<"m", "i", "s", "s", "i", "n", "g">>

\* The caller opens one file with safetensors_open.
Open ==
  /\ pc = "idle" /\ single = NULL /\ set = NULL
  /\ FreeIds(live) # {}
  /\ \E name \in DOMAIN fs \cup {N_missing}, env \in Env(build) :
       LET id == MinOf(FreeIds(live))
           r == safetensors_open(id, name, FileAt(name), env)
           a == ApplyEvents(live, bad, id, r.ev)
       IN /\ single' = r.sf
          /\ live' = a.live
          /\ bad' = a.bad
          /\ info' = [name |-> name, copied |-> r.copied, parsed |-> r.parsed]
          /\ last' = Returned("open", IF r.sf = NULL THEN "NULL" ELSE "sf", "none")
  /\ pc' = "ret"
  /\ UNCHANGED <<build, fs, set, ms, shard_names, shard_i, opened, found>>
  /\ UNCHANGED pvars

\* The caller closes that shard with safetensors_close.
Close ==
  /\ pc = "idle" /\ single # NULL
  /\ LET a == ApplyEvents(live, bad, single.id, safetensors_close(single))
     IN /\ live' = a.live
        /\ bad' = a.bad
  /\ single' = NULL
  /\ last' = Returned("close", "void", "none")
  /\ pc' = "ret"
  /\ UNCHANGED <<build, fs, set, ms, shard_names, shard_i, opened, info, found>>
  /\ UNCHANGED pvars

\* multi_safetensors_open, up to the return of the single file path:
\* calloc of the set, then safetensors_open of model.safetensors.
MultiOpenBegin ==
  /\ pc = "idle" /\ single = NULL /\ set = NULL
  /\ Cardinality(FreeIds(live)) >= SAFETENSORS_MAX_SHARDS + 1
  /\ \/ \* calloc of the set fails
        /\ last' = Returned("multi_open", "NULL", "calloc")
        /\ pc' = "ret"
        /\ UNCHANGED <<live, bad, set, ms, opened>>
     \/ \E env \in Env(build) :
          LET mid == MinOf(FreeIds(live))
              m == [id |-> mid, shards |-> EmptyShards, num_shards |-> 0]
              lv == live \cup {<<mid, "ms">>}
              id == MinOf(FreeIds(lv))
              r == safetensors_open(id, N_single, FileAt(N_single), env)
              a == ApplyEvents(lv, bad, id, r.ev)
          IN /\ live' = a.live
             /\ bad' = a.bad
             /\ opened' = <<[name |-> N_single, ok |-> r.sf # NULL]>>
             /\ IF r.sf # NULL
                THEN /\ set' = SingleFileSet(m, r.sf)
                     /\ last' = Returned("multi_open", "ms", "single")
                     /\ pc' = "ret"
                     /\ UNCHANGED ms
                ELSE /\ ms' = m
                     /\ pc' = "scan"
                     /\ UNCHANGED <<set, last>>
  /\ UNCHANGED <<build, fs, single, shard_names, shard_i, info, found>>
  /\ UNCHANGED pvars

\* multi_safetensors_open, the directory scan: opendir, the readdir loop,
\* closedir, the test for no shard, qsort.
MultiScan ==
  /\ pc = "scan"
  /\ \/ \* opendir fails
        /\ live' = live \ {<<ms.id, "ms">>}
        /\ last' = Returned("multi_open", "NULL", "opendir")
        /\ pc' = "ret"
        /\ ms' = NULL
        /\ UNCHANGED <<shard_names, shard_i>>
     \/ \E order \in ListingOrders(DOMAIN fs) :
          LET names == ScanLoop(order, 1, <<>>) IN
          IF Len(names) = 0
          THEN /\ live' = live \ {<<ms.id, "ms">>}
               /\ last' = Returned("multi_open", "NULL", "no_shards")
               /\ pc' = "ret"
               /\ ms' = NULL
               /\ UNCHANGED <<shard_names, shard_i>>
          ELSE /\ shard_names' = qsort(names)
               /\ shard_i' = 1
               /\ pc' = "loop"
               /\ UNCHANGED <<live, last, ms>>
  /\ UNCHANGED <<build, fs, bad, single, set, opened, info, found>>
  /\ UNCHANGED pvars

\* multi_safetensors_open, one round of the opening loop; the round that
\* opens the last shard sets num_shards and returns the set.
MultiOpenShard ==
  /\ pc = "loop"
  /\ \E env \in Env(build) :
       LET name == shard_names[shard_i]
           id == MinOf(FreeIds(live))
           r == safetensors_open(id, name, FileAt(name), env)
           a == ApplyEvents(live, bad, id, r.ev)
           m == [ms EXCEPT !.shards[shard_i] = r.sf]
       IN /\ opened' = Append(opened, [name |-> name, ok |-> r.sf # NULL])
          /\ IF r.sf = NULL
             THEN LET c == multi_safetensors_close(m, a.live, a.bad) IN
                  /\ live' = c.live
                  /\ bad' = c.bad
                  /\ last' = Returned("multi_open", "NULL", "open_failed")
                  /\ pc' = "ret"
                  /\ ms' = NULL
                  /\ UNCHANGED <<set, shard_i>>
             ELSE /\ live' = a.live
                  /\ bad' = a.bad
                  /\ IF shard_i = Len(shard_names)
                     THEN /\ set' = [m EXCEPT !.num_shards = Len(shard_names)]
                          /\ last' = Returned("multi_open", "ms", "shards")
                          /\ pc' = "ret"
                          /\ ms' = NULL
                          /\ UNCHANGED shard_i
                     ELSE /\ ms' = m
                          /\ shard_i' = shard_i + 1
                          /\ UNCHANGED <<set, last, pc>>
  /\ UNCHANGED <<build, fs, single, shard_names, info, found>>
  /\ UNCHANGED pvars

\* The caller closes the set with multi_safetensors_close.
MultiClose ==
  /\ pc = "idle" /\ set # NULL
  /\ LET c == multi_safetensors_close(set, live, bad)
     IN /\ live' = c.live
        /\ bad' = c.bad
  /\ set' = NULL
  /\ last' = Returned("multi_close", "void", "none")
  /\ pc' = "ret"
  /\ UNCHANGED <<build, fs, single, ms, shard_names, shard_i, opened, info, found>>
  /\ UNCHANGED pvars

\* The caller looks a tensor name up with multi_safetensors_find.
Find ==
  /\ pc = "idle" /\ set # NULL
  /\ \E name \in TensorNames :
       LET r == multi_safetensors_find(set, name)
       IN found' = [name |-> name, at |-> r,
                    t |-> IF r = NULL THEN NULL ELSE set.shards[r.s].tensors[r.i],
                    out_sf |-> IF r = NULL THEN NULL ELSE set.shards[r.s]]
  /\ last' = Returned("find", "t", "none")
  /\ pc' = "ret"
  /\ UNCHANGED <<build, fs, live, bad, single, set, ms, shard_names, shard_i, 
                 opened, info>>
  /\ UNCHANGED pvars

\* The caller has taken the result of the call; the record of the call is
\* dropped.
Return ==
  /\ pc = "ret"
  /\ pc' = "idle"
  /\ last' = NoCall
  /\ info' = NoInfo
  /\ found' = NULL
  /\ opened' = <<>>
  /\ shard_names' = <<>>
  /\ shard_i' = 0
  /\ UNCHANGED <<build, fs, live, bad, single, set, ms>>
  /\ UNCHANGED pvars

Next ==
  \/ Open
  \/ Close
  \/ MultiOpenBegin
  \/ MultiScan
  \/ MultiOpenShard
  \/ MultiClose
  \/ Find
  \/ Return

Spec == Init /\ [][Next]_vars

(***************************************************************************)
(* Parser runs: parse_header over header texts                             *)
(***************************************************************************)
\* Values of an unknown key.
Atoms ==
  {<<"1">>,
   Q(<<"s">>),
   Q(<<"}">>),
   Q(<<"[", ",">>),
   Q(<<BSLASH, QUOTE>>),
   Q(<<"{", BSLASH, QUOTE, "]">>),
   Q(<<BSLASH, BSLASH>>),
   <<" ", "-", "1", ".", "5", " ">>}

Arr(vs) == <<"[">> \o Join(vs, <<",">>) \o <<"]">>
Obj(v) == <<"{">> \o Q(<<"k">>) \o <<":">> \o v \o <<"}">>

\* Nesting depth of the values tried.
ValueDepth == 2

RECURSIVE Values(_)
Values(d) ==
  IF d = 0 THEN Atoms
  ELSE LET V == Values(d - 1) IN
       V \cup {Arr(<<>>), <<"{", "}">>}
         \cup {Arr(<<v>>) : v \in V} \cup {Obj(v) : v \in V}
         \cup {Arr(<<a, v>>) : a \in {<<"1">>, Q(<<"}">>)}, v \in V}

K_unknown == <<"x">>

KnownFields == <<F_dtype(S_F32), F_shape(<<2, 3>>), F_offsets(0, 24)>>

EntryB == TensorText(T_b, S_BF16, <<4>>, 24, 32)

DescA == Descriptor(T_a, "DTYPE_F32", <<2, 3>>, 0, 24)
DescB == Descriptor(T_b, "DTYPE_BF16", <<4>>, 24, 32)

\* The header {"a":{...},"b":{...}} with "x": v put after the first k known
\* keys of entry a, the same header without it, and where v starts and ends.
UnknownKeyInput(k, v) ==
  LET before == <<"{">> \o Q(T_a) \o <<":", "{">>
                  \o Join(SubSeq(KnownFields, 1, k), <<",">>)
                  \o (IF k > 0 THEN <<",">> ELSE <<>>)
                  \o Q(K_unknown) \o <<":">>
      after == (IF k < 3 THEN <<",">> ELSE <<>>)
                 \o Join(SubSeq(KnownFields, k + 1, 3), <<",">>)
                 \o <<"}", ",">> \o EntryB \o <<"}">>
  IN [kind |-> "unknown_key",
      text |-> before \o v \o after,
      base |-> HeaderText(<<EntryText(T_a, KnownFields), EntryB>>),
      vstart |-> Len(before) + 1,
      vend |-> Len(before) + Len(v) + 1,
      expect |-> <<DescA, DescB>>]

\* Extra shape elements tried beyond the MaxDims the descriptor can hold.
ExtraDims == 2

Dims(n) == [d \in 1..n |-> d]

FirstDims(dims) == IF Len(dims) > MaxDims THEN SubSeq(dims, 1, MaxDims) ELSE dims

\* The header {"a":{...},"b":{...}} where the shape of a has n elements and
\* is the k-th key of entry a.
ShapeInput(k, n) ==
  LET fields == IF k = 1 THEN <<F_shape(Dims(n)), F_dtype(S_F32), F_offsets(0, 24)>>
                ELSE IF k = 2 THEN <<F_dtype(S_F32), F_shape(Dims(n)), F_offsets(0, 24)>>
                ELSE <<F_dtype(S_F32), F_offsets(0, 24), F_shape(Dims(n))>>
      text == HeaderText(<<EntryText(T_a, fields), EntryB>>)
  IN [kind |-> "shape",
      text |-> text,
      base |-> text,
      vstart |-> 0,
      vend |-> 0,
      expect |-> <<Descriptor(T_a, "DTYPE_F32", FirstDims(Dims(n)), 0, 24), DescB>>]

\* The well-formed header {"a":{...},"b":{...}} the defective texts are made of.
WellFormed == HeaderText(<<EntryText(T_a, KnownFields), EntryB>>)

\* The structural tokens of a header text.
Structural == {"{", "}", ":", QUOTE, "[", "]"}

Without(s, i) == SubSeq(s, 1, i - 1) \o SubSeq(s, i + 1, Len(s))

\* WellFormed with one structural token left out, and WellFormed cut short
\* anywhere before its closing brace.
DefectTexts ==
  {Without(WellFormed, i) : i \in {j \in 1..Len(WellFormed) : WellFormed[j] \in Structural}}
    \cup {SubSeq(WellFormed, 1, k) : k \in 0..(Len(WellFormed) - 1)}

DefectInput(text) ==
  [kind |-> "defect",
   text |-> text,
   base |-> WellFormed,
   vstart |-> 0,
   vend |-> 0,
   expect |-> <<DescA, DescB>>]

\* String values tried inside a "__metadata__" object.
MetaStrings == {Q(<<"v">>), Q(<<"}">>), Q(<<"{">>), Q(<<"{", "}">>)}

\* The "__metadata__" objects tried, nested up to ValueDepth.
RECURSIVE MetaValues(_)
MetaValues(d) ==
  IF d = 0 THEN {<<"{", "}">>} \cup {Obj(v) : v \in MetaStrings}
  ELSE LET V == MetaValues(d - 1) IN V \cup {Obj(v) : v \in V}

EntryA == EntryText(T_a, KnownFields)

\* The header {"a":{...},"b":{...}} with "__metadata__": v put after its first
\* k entries, the same header without it, and where v starts and ends.
MetadataInput(k, v) ==
  LET entries == <<EntryA, EntryB>>
      before == <<"{">> \o Join(SubSeq(entries, 1, k), <<",">>)
                  \o (IF k > 0 THEN <<",">> ELSE <<>>)
                  \o Q(K_metadata) \o <<":">>
      after == (IF k < 2 THEN <<",">> ELSE <<>>)
                 \o Join(SubSeq(entries, k + 1, 2), <<",">>) \o <<"}">>
  IN [kind |-> "metadata",
      text |-> before \o v \o after,
      base |-> WellFormed,
      vstart |-> Len(before) + 1,
      vend |-> Len(before) + Len(v) + 1,
      expect |-> <<DescA, DescB>>]

\* Shapes with a sign in them.
SignedDims == {<<-1>>, <<2, -3>>, <<-2, 3>>, <<0, 0>>}

\* The header {"a":{...},"b":{...}} where the shape of a is dims.
SignedInput(dims) ==
  [kind |-> "signed",
   text |-> HeaderText(<<TensorText(T_a, S_F32, dims, 0, 24), EntryB>>),
   base |-> WellFormed,
   vstart |-> 0,
   vend |-> 0,
   expect |-> <<Descriptor(T_a, "DTYPE_F32", dims, 0, 24), DescB>>]

\* Entries tried beyond the SAFETENSORS_MAX_TENSORS the table can hold.
ExtraEntries == 2

NthName(i) == <<"t">> \o NatText(i)

NthEntry(i) == TensorText(NthName(i), S_F32, <<1>>, 4 * (i - 1), 4 * i)

NthDescriptor(i) == Descriptor(NthName(i), "DTYPE_F32", <<1>>, 4 * (i - 1), 4 * i)

\* A header of n well-formed entries t1..tn with "__metadata__" after the
\* first m of them (m = -1: no "__metadata__"); expect is every entry's
\* descriptor, in header order.
ManyInput(n, m) ==
  LET entries == [i \in 1..n |-> NthEntry(i)]
      meta == Q(K_metadata) \o <<":">> \o Obj(Q(<<"v">>))
      all == IF m < 0 THEN entries
             ELSE SubSeq(entries, 1, m) \o <<meta>> \o SubSeq(entries, m + 1, n)
  IN [kind |-> "many",
      text |-> HeaderText(all),
      base |-> HeaderText(entries),
      vstart |-> 0,
      vend |-> 0,
      expect |-> [i \in 1..n |-> NthDescriptor(i)]]

\* A header text with escapes in a tensor name, in a key, in the string
\* value of an unknown key and in the dtype.
EscapedHeader ==
  HeaderText(<<EntryText(<<"a", BSLASH, "n">>,
                         <<Q(<<"x", BSLASH, "t">>) \o <<":">> \o Q(<<"v", BSLASH, QUOTE, "w">>),
                           F_dtype(<<"F", BSLASH, "3", "2">>),
                           F_shape(<<1>>)>>)>>)

\* Length of the arbitrary header texts tried.
RawLen == 4

RawAlphabet == {"{", QUOTE, BSLASH, ":", "a"}

\* Every text of up to RawLen bytes of RawAlphabet, and EscapedHeader cut
\* short anywhere: among them texts that end inside a string literal and
\* texts that end directly after a backslash.
RawTexts ==
  UNION {[1..n -> RawAlphabet] : n \in 0..RawLen}
    \cup {SubSeq(EscapedHeader, 1, k) : k \in 0..Len(EscapedHeader)}

RawInput(text) ==
  [kind |-> "raw",
   text |-> text,
   base |-> text,
   vstart |-> 0,
   vend |-> 0,
   expect |-> <<>>]

ParseInputs ==
  {UnknownKeyInput(k, v) : k \in 0..3, v \in Values(ValueDepth)}
    \cup {ShapeInput(k, n) : k \in 1..3, n \in 0..(MaxDims + ExtraDims)}
    \cup {DefectInput(text) : text \in DefectTexts}
    \cup {MetadataInput(k, v) : k \in 0..2, v \in MetaValues(ValueDepth)}
    \cup {SignedInput(dims) : dims \in SignedDims}
    \cup UNION {{ManyInput(n, m) : m \in -1..n} :
                 n \in 0..(SAFETENSORS_MAX_TENSORS + ExtraEntries)}
    \cup {RawInput(text) : text \in RawTexts}

\* header_json as safetensors_open builds it from a header text.
HeaderJson(text) == HeaderCopy(text, Len(text))

InitParse ==
  /\ Start("posix", <<>>)
  /\ pin \in ParseInputs
  /\ pout = NULL

\* Bytes of memory tried after the header_json allocation.
TailLen == 2

TailAlphabet == {QUOTE, "x"}

\* What a read after the end of header_json meets, which the language leaves
\* undefined: a trap that stops the program, or bytes of the heap, here up
\* to TailLen of them before a zero byte.
Beyond ==
  {[trap |-> TRUE, bytes |-> <<>>]}
    \cup {[trap |-> FALSE, bytes |-> t \o <<NUL>>] :
            t \in UNION {[1..n -> TailAlphabet] : n \in 0..TailLen}}

\* parse_header runs over the text and over the text it is compared with;
\* stop is where the skip of the unknown value, or of the "__metadata__"
\* value, leaves the cursor; nul is the index of the terminator of
\* header_json.  The cursor only moves forward, so the one parse_header
\* ends with is the furthest it read at.  When fault is set the program
\* was stopped at the first read after the terminator and parse_header did
\* not return: rc then stands for no value.
Parse ==
  /\ pout = NULL
  /\ \E mem \in Beyond :
       LET json == HeaderJson(pin.text)
           run == parse_header(json \o mem.bytes)
           fault == mem.trap /\ run.p > Len(json)
       IN pout' = [with |-> IF fault
                            THEN [rc |-> -1, p |-> Len(json) + 1, tensors |-> <<>>]
                            ELSE run,
                   base |-> parse_header(HeaderJson(pin.base)),
                   stop |-> IF pin.kind = "unknown_key"
                            THEN SkipValue(json, pin.vstart, 0, FALSE)
                            ELSE IF pin.kind = "metadata"
                            THEN MetadataSkip(json, pin.vstart, 0)
                            ELSE 0,
                   nul |-> Len(json),
                   fault |-> fault]
  /\ UNCHANGED <<svars, pin>>

NextParse == Parse

SpecParse == InitParse /\ [][NextParse]_vars

(***************************************************************************)
(* Tensor access                                                           *)
(***************************************************************************)
\* int64_t, scaled down to 16 bits.
Int64Mod == 2 ^ 16

InInt64(v) == v >= -(Int64Mod \div 2) /\ v < Int64Mod \div 2

\* The two's-complement value a product that overflows leaves in the
\* register.
WrapInt64(v) == ((v + Int64Mod \div 2) % Int64Mod) - Int64Mod \div 2

\* What undefined behaviour (signed overflow, a misaligned access, a read
\* past the end of the mapping) turns into: the build that traps stops the
\* program there, the other goes on with what the hardware gives.
Platforms == {"trap", "benign"}

\* Byte order of the host.
Endians == {"little", "big"}

\* The loop of safetensor_numel, at index i (from 1) with product n.
RECURSIVE NumelLoop(_, _, _, _)
NumelLoop(t, i, n, plat) ==
  IF i > t.ndim THEN [trap |-> FALSE, n |-> n]
  ELSE IF InInt64(n * t.shape[i]) THEN NumelLoop(t, i + 1, n * t.shape[i], plat)
  ELSE IF plat = "trap" THEN [trap |-> TRUE, n |-> 0]
  ELSE NumelLoop(t, i + 1, WrapInt64(n * t.shape[i]), plat)

safetensor_numel(t, plat) == NumelLoop(t, 1, 1, plat)

\* Addresses are an object and a byte offset into it.
safetensors_data(sf, t) ==
  [id |-> sf.data.id, off |-> 8 + sf.header_size + t.data_offset]

\* A 32-bit word as its two 16-bit halves.
Word(hi, lo) == [hi |-> hi, lo |-> lo]

\* w << 16 on a uint32_t: the low half moves up, the high half is lost.
ShiftLeft16(w) == Word(w.lo, 0)

\* Mutant: the value is left in the low half.
bf16_to_f32_NoShift(bf16) == Word(0, bf16)

\* The float is the word, bit for bit.
bf16_to_f32(bf16) == ShiftLeft16(Word(0, bf16))

\* The byte at offset m of the mapping, m inside or after the data block.
\* Past the end of the mapping the build that goes on reads env.garbage.
MapByte(sf, env, m) ==
  IF m < sf.data.len THEN sf.data.block[m - (8 + sf.header_size) + 1] ELSE env.garbage

\* Two bytes in memory order as a uint16_t.
U16(b0, b1, endian) == IF endian = "little" THEN b0 + 256 * b1 ELSE 256 * b0 + b1

\* src[i] of a uint16_t array: the two bytes at m.
LoadHalf(sf, env, m) == U16(MapByte(sf, env, m), MapByte(sf, env, m + 1), env.endian)

\* The float that memcpy leaves from the four bytes at m.
LoadWord(sf, env, m) ==
  IF env.endian = "little"
  THEN Word(LoadHalf(sf, env, m + 2), LoadHalf(sf, env, m))
  ELSE Word(LoadHalf(sf, env, m), LoadHalf(sf, env, m + 2))

\* What a call of safetensors_get_f32 did: the pointer returned, the heap
\* events, the size asked of malloc (-1: malloc not called), the offsets of
\* the mapping that were read, and whether the program trapped instead of
\* returning.
Outcome(ret, ev, asked, reads, fault) ==
  [ret |-> ret, ev |-> ev, asked |-> asked, reads |-> reads, fault |-> fault]

Trapped(ev, asked) == Outcome(NULL, ev, asked, {}, TRUE)

\* The buffer malloc returned, holding out.
Buffer(out) == [id |-> 2, out |-> out]

\* case DTYPE_F32: memcpy of size bytes from off.
CopyF32(sf, env, off, size) ==
  IF off + size > sf.data.len /\ env.plat = "trap"
  THEN Trapped(<<Acq("buf")>>, size)
  ELSE Outcome(Buffer([i \in 1..(size \div 4) |-> LoadWord(sf, env, off + 4 * (i - 1))]),
               <<Acq("buf")>>, size, {off + k : k \in 0..(size - 1)}, FALSE)

\* case DTYPE_BF16: n elements are read from src and widened into out, which
\* has room for size bytes.  src misaligned, src[i] past the mapping and
\* out[i] past the buffer are undefined.
WidenBF16(sf, env, off, n, size) ==
  IF (off % 2 # 0 \/ off + 2 * n > sf.data.len \/ 4 * n > size) /\ env.plat = "trap"
  THEN Trapped(<<Acq("buf")>>, size)
  ELSE Outcome(Buffer([i \in 1..n |-> bf16_to_f32(LoadHalf(sf, env, off + 2 * (i - 1)))]),
               <<Acq("buf")>>, size, {off + k : k \in 0..(2 * n - 1)}, FALSE)

\* Mutant: the buffer is not freed.
Unsupported_NoFree(size) == Outcome(NULL, <<Acq("buf")>>, size, {}, FALSE)

\* default: free(out); return NULL.
Unsupported(size) == Outcome(NULL, <<Acq("buf"), Rel("buf")>>, size, {}, FALSE)

safetensors_get_f32(sf, t, env) ==
  Let(safetensor_numel(t, env.plat), LAMBDA r :
  IF r.trap THEN Trapped(<<>>, -1)
  ELSE IF r.n <= 0 THEN Outcome(NULL, <<>>, -1, {}, FALSE)
  ELSE Let(ToSize(r.n * 4), LAMBDA size :
       IF ~env.malloc_ok THEN Outcome(NULL, <<>>, size, {}, FALSE)
       ELSE IF t.dtype = "DTYPE_F32"
       THEN CopyF32(sf, env, safetensors_data(sf, t).off, size)
       ELSE IF t.dtype = "DTYPE_BF16"
       THEN WidenBF16(sf, env, safetensors_data(sf, t).off, r.n, size)
       ELSE Unsupported(size)))

safetensor_is_bf16(t) == t # NULL /\ t.dtype = "DTYPE_BF16"

\* Mutant: the dtype is not looked at.
safetensors_get_bf16_direct_AnyDtype(sf, t) ==
  IF sf = NULL \/ t = NULL THEN NULL ELSE safetensors_data(sf, t)

safetensors_get_bf16_direct(sf, t) ==
  IF sf = NULL \/ t = NULL \/ t.dtype # "DTYPE_BF16" THEN NULL
  ELSE safetensors_data(sf, t)

\* Data blocks tried.
Blocks == {<<128, 63, 0, 0, 0, 0, 128, 63>>, <<1, 2, 3, 4, 5, 6, 7, 8>>}

S_U8 == <<"U", "8">>

DtypeTexts == {S_F32, S_F16, S_BF16, S_I32, S_I64, S_BOOL, S_U8}

\* Shapes tried; the product of the last four does not fit int64_t.
ShapesTried ==
  {<<>>, <<0>>, <<1>>, <<2>>, <<1, 2>>, <<3>>, <<-1>>, <<2, 0>>,
   <<2 ^ 8, 2 ^ 8>>, <<2 ^ 8, 2 ^ 8 + 1>>, <<2 ^ 8, 2 ^ 7>>, <<-(2 ^ 8), 2 ^ 8 - 1>>}

\* data_offsets tried, all inside the data block.
OffsetsTried == {<<0, 4>>, <<0, 8>>, <<4, 8>>, <<2, 6>>, <<1, 5>>}

\* A header text padded with a space to an even length, as writers of the
\* format pad it, so that the data block starts at an even address.
Padded(text) == IF Len(text) % 2 = 1 THEN text \o <<" ">> ELSE text

\* The shard safetensors_open returns for a file of one entry and a data
\* block, and the descriptor of that entry; either may be replaced by NULL.
TensorInput(d, dims, off, block, sf_null, t_null) ==
  LET text == Padded(HeaderText(<<TensorText(T_a, d, dims, off[1], off[2])>>))
      h == parse_header(HeaderJson(text))
      sf0 == NewShard(1, N_single, MkFile(text, Len(block)),
                      [fail |-> "none", strdup_ok |-> TRUE], NULL)
  IN [kind |-> "tensor",
      sf |-> IF sf_null THEN NULL
             ELSE [sf0 EXCEPT !.data = [id |-> 1, len |-> sf0.file_size, block |-> block],
                              !.header_json = [id |-> 1, str |-> HeaderJson(text)],
                              !.num_tensors = Len(h.tensors),
                              !.tensors = h.tensors],
      t |-> IF t_null THEN NULL ELSE h.tensors[1],
      b |-> 0]

\* Every 16-bit value.
U16Values == 0..(2 ^ 16 - 1)

DataInputs ==
  {TensorInput(d, dims, off, block, FALSE, FALSE) :
     d \in DtypeTexts, dims \in ShapesTried, off \in OffsetsTried, block \in Blocks}
    \cup {TensorInput(d, <<1>>, <<0, 4>>, <<1, 2, 3, 4, 5, 6, 7, 8>>, sn, tn) :
            d \in {S_F32, S_BF16}, sn \in BOOLEAN, tn \in BOOLEAN}
    \cup {[kind |-> "bf16", sf |-> NULL, t |-> NULL, b |-> b] : b \in U16Values}

DataEnv ==
  [malloc_ok : BOOLEAN, plat : Platforms, endian : Endians, garbage : {0, 255}]

\* The environment of the calls that neither allocate nor read.
PlainEnv(plat) == [malloc_ok |-> TRUE, plat |-> plat, endian |-> "little", garbage |-> 0]

InitData ==
  /\ Start("posix", <<>>)
  /\ pin \in DataInputs
  /\ pout = NULL

Numel ==
  /\ pout = NULL
  /\ pin.kind = "tensor"
  /\ pin.t # NULL
  /\ \E plat \in Platforms :
       pout' = [op |-> "numel", env |-> PlainEnv(plat), r |-> safetensor_numel(pin.t, plat)]
  /\ UNCHANGED <<svars, pin>>

Data ==
  /\ pout = NULL
  /\ pin.kind = "tensor"
  /\ pin.sf # NULL
  /\ pin.t # NULL
  /\ pout' = [op |-> "data", env |-> PlainEnv("benign"),
              r |-> Outcome(safetensors_data(pin.sf, pin.t), <<>>, -1, {}, FALSE)]
  /\ UNCHANGED <<svars, pin>>

GetF32 ==
  /\ pout = NULL
  /\ pin.kind = "tensor"
  /\ pin.sf # NULL
  /\ pin.t # NULL
  /\ \E env \in DataEnv :
       pout' = [op |-> "get_f32", env |-> env, r |-> safetensors_get_f32(pin.sf, pin.t, env)]
  /\ UNCHANGED <<svars, pin>>

GetBf16Direct ==
  /\ pout = NULL
  /\ pin.kind = "tensor"
  /\ pout' = [op |-> "get_bf16_direct", env |-> PlainEnv("benign"),
              r |-> Outcome(safetensors_get_bf16_direct(pin.sf, pin.t), <<>>, -1, {}, FALSE)]
  /\ UNCHANGED <<svars, pin>>

Widen ==
  /\ pout = NULL
  /\ pin.kind = "bf16"
  /\ pout' = [op |-> "bf16_to_f32", env |-> PlainEnv("benign"),
              r |-> Outcome(bf16_to_f32(pin.b), <<>>, -1, {}, FALSE)]
  /\ UNCHANGED <<svars, pin>>

NextData == Numel \/ Data \/ GetF32 \/ GetBf16Direct \/ Widen

SpecData == InitData /\ [][NextData]_vars

(***************************************************************************)
(* Properties                                                              *)
(***************************************************************************)
\* The shards that are open: held by the caller, by its set, or by the set
\* under construction.
ShardsOf(m) == IF m = NULL THEN {} ELSE {m.shards[s] : s \in DOMAIN m.shards} \ {NULL}

OpenShards == ({single} \ {NULL}) \cup ShardsOf(set) \cup ShardsOf(ms)

\* Size of the data block of a shard.
DataBlockLen(sf) == sf.file_size - 8 - sf.header_size

\* The file the caller's last safetensors_open was given.
InfoFile == Files[FileAt(info.name)]

OpenReturned == pc = "ret" /\ last.op = "open"

\* C1: every descriptor of every open shard has data_offset + data_size
\* within the data block, i.e. safetensors_open never returns a shard for a
\* file with an entry that reaches beyond file_size - 8 - header_size.
C1_DescriptorsInsideDataBlock ==
  \A sf \in OpenShards :
    \A k \in 1..sf.num_tensors :
      sf.tensors[k].data_offset + sf.tensors[k].data_size <= DataBlockLen(sf)

\* C2: when multi_safetensors_open returns NULL, nothing it acquired is
\* still held (the caller holds no shard and no set when it calls).
C2_FailedDiscoveryHoldsNothing ==
  (pc = "ret" /\ last.op = "multi_open" /\ last.ret = "NULL") => live = {}

\* C3: a step of safetensors_open that returns NULL leaves the held
\* resources as they were and releases nothing that is not held.
C3_FailedOpenReleasesAll ==
  [][(pc = "idle" /\ pc' = "ret" /\ last'.op = "open" /\ last'.ret = "NULL")
       => (live' = live /\ ~bad')]_vars

C3_Witness ==
  OpenReturned /\ last.ret = "NULL" /\ info.parsed /\ live = {} /\ ~bad

\* C4: safetensors_open of a file shorter than 8 bytes, or whose declared
\* header length exceeds file_size - 8, returns NULL having copied and
\* parsed nothing; any header copy reads bytes [8, 8 + header_size) and
\* these lie inside the file.
C4_HeaderLengthChecked ==
  OpenReturned =>
    /\ (InfoFile.size < 8 \/ InfoFile.hlen > InfoFile.size - 8)
         => (last.ret = "NULL" /\ info.copied = <<>> /\ ~info.parsed)
    /\ info.copied # <<>>
         => (info.copied = <<8, 8 + InfoFile.hlen>> /\ 8 + InfoFile.hlen <= InfoFile.size)
    /\ info.parsed => info.copied # <<>>

\* header_size = file_size - 8 is accepted, and a too long header refused.
C4_Witness ==
  OpenReturned /\ last.ret = "sf" /\ InfoFile.hlen = InfoFile.size - 8
    /\ info.copied = <<8, InfoFile.size>>

MultiOpenReturned == pc = "ret" /\ last.op = "multi_open"

\* The shard a successful safetensors_open of the directory entry name
\* yields, up to its address and its path pointer.
IsShardOfFile(sf, name) ==
  /\ sf # NULL
  /\ name \in DOMAIN fs
  /\ sf.file_size = Files[fs[name]].size
  /\ sf.header_size = Files[fs[name]].hlen
  /\ sf.tensors = ParsedHeader[fs[name]].tensors
  /\ sf.num_tensors = Len(sf.tensors)
  /\ sf.path # NULL => sf.path.str = name

\* C5: a set returned by the directory scan holds the same files at the
\* same positions whatever order readdir returned the entries in, in
\* ascending byte-wise order of their names.
C5_ListingOrderIrrelevant ==
  (MultiOpenReturned /\ last.site = "shards") =>
    /\ \A order \in ListingOrders(DOMAIN fs) :
         qsort(ScanLoop(order, 1, <<>>)) = shard_names
    /\ \A k \in 1..(Len(shard_names) - 1) : strcmp(shard_names[k], shard_names[k + 1]) < 0
    /\ set.num_shards = Len(shard_names)
    /\ \A k \in 1..Len(shard_names) : IsShardOfFile(set.shards[k], shard_names[k])

\* The descriptors of the caller's set that carry the name looked up, as
\* <<shard index, tensor index>>.
Holders(name) ==
  {at \in (1..set.num_shards) \X (1..SAFETENSORS_MAX_TENSORS) :
     /\ at[2] <= set.shards[at[1]].num_tensors
     /\ set.shards[at[1]].tensors[at[2]].name = name}

Earlier(a, b) == a[1] < b[1] \/ (a[1] = b[1] /\ a[2] <= b[2])

\* C6: multi_safetensors_find returns NULL exactly when no shard of the set
\* holds the name; otherwise it returns the descriptor at the smallest
\* (shard index, tensor index) holding it, with that shard as owner.
C6_FindFirstMatch ==
  (pc = "ret" /\ last.op = "find") =>
    /\ (found.at = NULL) <=> (Holders(found.name) = {})
    /\ found.at # NULL =>
         /\ <<found.at.s, found.at.i>> \in Holders(found.name)
         /\ \A h \in Holders(found.name) : Earlier(<<found.at.s, found.at.i>>, h)
         /\ found.t = set.shards[found.at.s].tensors[found.at.i]
         /\ found.out_sf = set.shards[found.at.s]

\* a name held by two shards is found in the first
C6_Witness ==
  /\ pc = "ret" /\ last.op = "find" /\ found.at # NULL
  /\ found.at.s = 1
  /\ \E h \in Holders(found.name) : h[1] = 2

\* C7 as stated: with model.safetensors in the directory, discovery (once
\* it has its set record) returns a set of exactly that one shard and opens
\* nothing else.
C7_SingleFilePreferred ==
  (MultiOpenReturned /\ opened # <<>> /\ N_single \in DOMAIN fs) =>
    /\ last.ret = "ms" /\ set # NULL
    /\ set.num_shards = 1
    /\ IsShardOfFile(set.shards[1], N_single)
    /\ Len(opened) = 1

\* C7, amended: when the set record is allocated and safetensors_open of
\* model.safetensors succeeds, discovery returns a set of exactly that one
\* shard and opens no other file.
C7_OpenedSingleFilePreferred ==
  (MultiOpenReturned /\ opened # <<>> /\ opened[1].ok) =>
    /\ last.ret = "ms" /\ last.site = "single" /\ set # NULL /\ ms = NULL
    /\ set.num_shards = 1
    /\ IsShardOfFile(set.shards[1], N_single)
    /\ \A s \in 2..SAFETENSORS_MAX_SHARDS : set.shards[s] = NULL
    /\ Len(opened) = 1 /\ opened[1].name = N_single

\* model.safetensors is opened while model-* shards lie beside it
C7_Witness ==
  /\ MultiOpenReturned /\ opened # <<>> /\ opened[1].ok
  /\ \E n \in DOMAIN fs : IsShardName(n)
  /\ set.num_shards = 1

\* A name that starts with "model-" and contains ".safetensors" anywhere.
MatchesShardPattern(n) ==
  /\ Len(n) >= 6 /\ SubSeq(n, 1, 6) = S_model_dash
  /\ \E k \in 1..Len(n) : k + 11 <= Len(n) /\ SubSeq(n, k, k + 11) = S_dot_safetensors

Matching == {n \in DOMAIN fs : MatchesShardPattern(n)}

Min(a, b) == IF a <= b THEN a ELSE b

\* What C8 says of a discovery whose single file path was tried and failed.
ScanOutcome ==
  /\ (last.site = "no_shards") <=> (Matching = {})
  /\ last.site = "no_shards" =>
       /\ last.ret = "NULL" /\ set = NULL /\ ms = NULL
       /\ live = {}
       /\ Len(opened) = 1
  /\ last.site \in {"shards", "open_failed"} =>
       /\ {shard_names[k] : k \in 1..Len(shard_names)} \subseteq Matching
       /\ Len(shard_names) = Min(Cardinality(Matching), SAFETENSORS_MAX_SHARDS)
       /\ \A a, b \in 1..Len(shard_names) : a # b => shard_names[a] # shard_names[b]
  /\ \A k \in 2..Len(opened) : opened[k].name \in Matching

Parsed(kind) == pin # NULL /\ pin.kind = kind /\ pout # NULL

UnknownValue == SubSeq(pin.text, pin.vstart, pin.vend - 1)

C10_LongShapeTruncated ==
  Parsed("shape") =>
    /\ pout.with.rc = 0
    /\ pout.with.tensors = pin.expect


\* C11: a header text with one structural token missing, or cut short before
\* its closing brace, makes parse_header fail, so that safetensors_open
\* (which returns a shard only when parse_header returns 0) returns none.
C11_DefectiveHeaderRejected ==
  Parsed("defect") => pout.with.rc # 0

\* C12: a top-level "__metadata__" key whose value is a nested object, with
\* string values that may hold braces, is skipped exactly: the skip stops
\* right after the brace that closes the object, no descriptor is made for
\* it, and the header parses to the descriptors it has without that key.
C12_MetadataSkipped ==
  Parsed("metadata") =>
    /\ pout.stop = pin.vend
    /\ pout.with.rc = 0
    /\ pout.with.tensors = pout.base.tensors
    /\ pout.with.tensors = pin.expect

\* C19: every descriptor of a header that parse_header accepts, hence of
\* every shard safetensors_open returns, has 0 <= ndim <= 8 and no negative
\* shape dimension.
C19_ShapeNonNegative ==
  (pout # NULL /\ pout.with.rc = 0) =>
    \A i \in 1..Len(pout.with.tensors) :
      LET t == pout.with.tensors[i] IN
        /\ t.ndim \in 0..MaxDims
        /\ \A d \in 1..Len(t.shape) : t.shape[d] >= 0

\* A set of one shard holding the descriptors parse_header produced.
SetOf(tensors) ==
  [num_shards |-> 1,
   shards |-> <<[num_tensors |-> Len(tensors), tensors |-> tensors]>>]

\* C20: a header with more well-formed entries than SAFETENSORS_MAX_TENSORS
\* parses without error; the table never holds more than the maximum, it
\* holds the first entries in header order ("__metadata__" not counted),
\* and the names of the entries beyond them are not found.
C20_EntriesBeyondMaxIgnored ==
  Parsed("many") =>
    LET n == Len(pin.expect)
        kept == IF n > SAFETENSORS_MAX_TENSORS THEN SAFETENSORS_MAX_TENSORS ELSE n
    IN /\ pout.with.rc = 0
       /\ Len(pout.with.tensors) <= SAFETENSORS_MAX_TENSORS
       /\ pout.with.tensors = SubSeq(pin.expect, 1, kept)
       /\ \A i \in 1..n :
            (multi_safetensors_find(SetOf(pout.with.tensors), pin.expect[i].name) = NULL)
              <=> (i > kept)

C20_Witness ==
  /\ Parsed("many")
  /\ Len(pin.expect) = SAFETENSORS_MAX_TENSORS + ExtraEntries
  /\ pout.with.rc = 0
  /\ Len(pout.with.tensors) = SAFETENSORS_MAX_TENSORS
  /\ pin.text # pin.base

\* A call of op on a tensor has returned or trapped.
Called(op) == pin # NULL /\ pin.kind = "tensor" /\ pout # NULL /\ pout.op = op

\* The product of the dimensions, in the integers.
RECURSIVE Product(_)
Product(shape) == IF shape = <<>> THEN 1 ELSE Head(shape) * Product(Tail(shape))

\* The element count of the call that has returned: what safetensor_numel
\* gave it.
ElementCount == safetensor_numel(pin.t, pout.env.plat).n

Width(dtype) == IF dtype = "DTYPE_F32" THEN 4 ELSE 2

\* C14: safetensors_get_f32 returns NULL for an F32 or BF16 descriptor whose
\* data_size is not the element count times the dtype width; when it
\* returns a buffer for an F32 tensor, data_size = element count * 4 and
\* every byte read lies in [data_offset, data_offset + data_size) of the
\* data block.
C14_SizeMismatchRejected ==
  (Called("get_f32") /\ ~pout.r.fault /\ pin.t.dtype \in {"DTYPE_F32", "DTYPE_BF16"}) =>
    /\ pin.t.data_size # Product(pin.t.shape) * Width(pin.t.dtype) => pout.r.ret = NULL
    /\ (pout.r.ret # NULL /\ pin.t.dtype = "DTYPE_F32") =>
         /\ pin.t.data_size = Product(pin.t.shape) * 4
         /\ \A m \in pout.r.reads :
              LET k == m - (8 + pin.sf.header_size)
              IN k >= pin.t.data_offset /\ k < pin.t.data_offset + pin.t.data_size

\* C15: bf16_to_f32 of b is the word with b in its upper half and zero in
\* its lower half (0x3F80 gives 0x3F800000, 0 gives 0), so b is recovered
\* from the result; and out[i] of safetensors_get_f32 on a BF16 tensor is
\* bf16_to_f32 of the i-th 16-bit element of the tensor.
C15_WideningExact ==
  /\ (pin # NULL /\ pin.kind = "bf16" /\ pout # NULL) =>
       /\ pout.r.ret.hi = pin.b
       /\ pout.r.ret.lo = 0
       /\ pin.b = 16256 => pout.r.ret = Word(16256, 0)
       /\ pin.b = 0 => pout.r.ret = Word(0, 0)
  /\ (Called("get_f32") /\ pin.t.dtype = "DTYPE_BF16" /\ pout.r.ret # NULL) =>
       /\ Len(pout.r.ret.out) = ElementCount
       /\ \A i \in 1..Len(pout.r.ret.out) :
            pout.r.ret.out[i] =
              Word(LoadHalf(pin.sf, pout.env,
                            8 + pin.sf.header_size + pin.t.data_offset + 2 * (i - 1)), 0)

\* A BF16 tensor of the two elements 0x3F80 and 0, aligned and inside the
\* mapping, has been widened.
C15_Witness ==
  /\ Called("get_f32")
  /\ pout.env.plat = "trap"
  /\ pin.t.dtype = "DTYPE_BF16"
  /\ pout.r.ret # NULL
  /\ Len(pout.r.ret.out) = 2
  /\ pout.r.ret.out[1] = Word(16256, 0)
  /\ pout.r.ret.out[2] = Word(0, 0)

\* C16: safetensor_numel returns the product of the ndim shape dimensions,
\* 1 for the empty shape, whatever shape the parser accepted.
C16_NumelIsProduct ==
  Called("numel") =>
    /\ ~pout.r.trap
    /\ pout.r.n = Product(pin.t.shape)
    /\ pin.t.ndim = 0 => pout.r.n = 1

\* C18: safetensors_get_bf16_direct returns NULL exactly when the shard or
\* the descriptor is NULL or the dtype is not BF16; otherwise it returns,
\* with no allocation and no read, the address base + 8 + header_size +
\* data_offset, the one safetensors_data returns.
C18_Bf16DirectBorrows ==
  Called("get_bf16_direct") =>
    /\ pout.r.ret = NULL <=>
         (pin.sf = NULL \/ pin.t = NULL \/ pin.t.dtype # "DTYPE_BF16")
    /\ pout.r.ev = <<>>
    /\ pout.r.asked = -1
    /\ pout.r.reads = {}
    /\ pout.r.ret # NULL =>
         /\ pout.r.ret = safetensors_data(pin.sf, pin.t)
         /\ pout.r.ret.id = pin.sf.data.id
         /\ pout.r.ret.off = 8 + pin.sf.header_size + pin.t.data_offset

C18_Witness ==
  /\ Called("get_bf16_direct")
  /\ pout.r.ret # NULL
  /\ pout.r.ret.off > 8 + pin.sf.header_size

\* The ids of the objects the caller or the set under construction holds:
\* the shard s, the sets st and m, and the shards of the sets.
OwnerIds(s, st, m) ==
  {x.id : x \in (({s, st, m} \ {NULL}) \cup ShardsOf(st) \cup ShardsOf(m))}

\* A call has returned failure in this step.
FailedStep == pc' = "ret" /\ last'.ret = "NULL"

\* C17: over any number of opens and closes, of a shard or of a set, an
\* open that succeeds adds to the live resources only resources of the
\* objects it returns, leaving the others alone, and a close removes all
\* the resources of the objects it closes, each one once, and nothing else:
\* after the close the live resources are what they were before the open.
C17_OpenCloseRestores ==
  [][~FailedStep =>
       LET before == OwnerIds(single, set, ms)
           after == OwnerIds(single', set', ms')
       IN /\ live \ live' = {r \in live : r[1] \in before \ after}
          /\ \A r \in live' \ live : r[1] \in after \ before
          /\ bad' = bad]_vars

\* multi_safetensors_close has returned and nothing is live.
C17_Witness ==
  /\ pc = "ret"
  /\ last.op = "multi_close"
  /\ live = {}
  /\ ~bad

\* C21: whatever the header text, also one that ends inside a string
\* literal or directly after a backslash, the cursor of parse_header,
\* parse_tensor_entry, parse_string and parse_int never passes the
\* terminator of header_json, so that no byte after it is read.
C21_CursorWithinHeader ==
  (pin # NULL /\ pout # NULL) =>
    /\ ~pout.fault
    /\ pout.with.p <= pout.nul

=============================================================================
